---- MODULE Spec2Model ----
(***************************************************************************)
(* Kademlia routing table of node/routingtable.py: TreeRoutingTable (head  *)
(* ping eviction) and OptimizedTreeRoutingTable (replacement cache).       *)
(*                                                                         *)
(* Conventions of the model:                                               *)
(*  - ids are integers in 0 .. 2^B - 1 (the integer reading of a guid);    *)
(*  - Python list index j is sequence index j + 1; bucket indexes and the  *)
(*    keys of replacement_cache are therefore shifted by one (Python key 0 *)
(*    is key 1 here);                                                      *)
(*  - four identifiers of the source name nothing in their scope           *)
(*    (BIT_NODE_ID_LEN l.169, node_id l.270/286/294, old_bucket_index      *)
(*    l.445/453, replacementCache l.591); they are read as the names they  *)
(*    misspell (B, nodeID, oldBucketIndex, replacement_cache), since read  *)
(*    literally no table can be constructed at all;                        *)
(*  - kbucket.KBucket and the contact class are not part of the sources    *)
(*    at hand; their operations follow section 4.1 of the specification;   *)
(*  - constants.k is a parameter of the run, like the class of the table   *)
(*    and parent_node_id: it is fixed by the initial state.                *)
(*                                                                         *)
(* Specifications:                                                         *)
(*  - Spec: both tables on ids of B bits, under calls of the owning node   *)
(*    and completions of head pings; the clock stands still;               *)
(*  - SpecS2: the same on the table of the scenarios (8 bits, parent 0x80);*)
(*  - SpecRefresh: the base table while time passes and buckets are        *)
(*    touched, for getRefreshList;                                         *)
(*  - SpecWide: an optimized table of 5 bits with k + 1 contacts per       *)
(*    bucket, where replacement caches of several buckets coexist.         *)
(***************************************************************************)
EXTENDS Integers, Sequences, FiniteSets, Bags, TLC

\* ---------------------------------------------------------------- bounds
\* bits per id (BIT_NODE_ID_LEN)
B == 3
\* contacts per bucket (constants.k)
k == 2
\* head pings that may be in flight at the same time
MaxPings == 2
\* number of distinct transport addresses a contact may be seen at
NumAddrs == 2
\* seconds the clock may advance
MaxTime == 3
\* constants.refreshTimeout, in seconds
refreshTimeout == 2

Ids == 0 .. (2 ^ B - 1)
Addrs == 1 .. NumAddrs
\* the peers that are seen at more than one address (the others keep address 1)
Rebinders == {5}
Contacts == {c \in [guid : Ids, address : Addrs] : c.address = 1 \/ c.guid \in Rebinders}
\* nodeID = None of findCloseNodes: an id that excludes no contact
NoId == -1

VARIABLES
    variant,            \* "base": TreeRoutingTable, "optimized": OptimizedTreeRoutingTable
    parent_node_id,     \* self.parent_node_id
    buckets,            \* self.buckets: sequence of k-buckets
    replacement_cache,  \* self.replacement_cache: bucket index -> list of contacts
    pings,              \* bag of head pings in flight (deferreds with replaceContact attached)
    now,                \* int(time.time())
    constants_k,        \* constants.k, as configured for the run
    last                \* the operation performed last, and how it ended

vars == <<variant, parent_node_id, buckets, replacement_cache, pings, now, constants_k, last>>

\* ------------------------------------------------------- sequence helpers
Guids(cs) == {cs[j].guid : j \in DOMAIN cs}

SelectGuidNot(cs, g) == SelectSeq(cs, LAMBDA c : c.guid # g)

Last(s) == s[Len(s)]

Front(s) == SubSeq(s, 1, Len(s) - 1)

Take(s, n) == SubSeq(s, 1, IF n < Len(s) THEN n ELSE Len(s))

\* ------------------------------------------------------------- k-bucket
\* a bucket that was never touched has lastAccessed 0
KBucket(lo, hi) == [rangeMin |-> lo, rangeMax |-> hi, contacts |-> <<>>, lastAccessed |-> 0]

keyInRange(b, key) == b.rangeMin <= key /\ key < b.rangeMax

\* KBucket.getContact: <<c>> for the contact with that guid, <<>> for None
KBucket_getContact(b, g) == SelectSeq(b.contacts, LAMBDA c : c.guid = g)

\* KBucket.addContact: [full |-> TRUE] stands for raising BucketFull
KBucket_addContact(b, c) ==
    IF c.guid \in Guids(b.contacts)
    THEN [full |-> FALSE,
          bucket |-> [b EXCEPT !.contacts =
                         Append(SelectGuidNot(b.contacts, c.guid),
                                Head(KBucket_getContact(b, c.guid))),
                               !.lastAccessed = now]]
    ELSE IF Len(b.contacts) < constants_k
    THEN [full |-> FALSE,
          bucket |-> [b EXCEPT !.contacts = Append(@, c), !.lastAccessed = now]]
    ELSE [full |-> TRUE, bucket |-> b]

\* KBucket.removeContact: [found |-> FALSE] stands for raising ValueError
KBucket_removeContact(b, g) ==
    IF g \in Guids(b.contacts)
    THEN [found |-> TRUE, bucket |-> [b EXCEPT !.contacts = SelectGuidNot(@, g)]]
    ELSE [found |-> FALSE, bucket |-> b]

\* KBucket.getContacts(count, excludeContact)
KBucket_getContacts(b, n, exclude) ==
    IF n <= 0 THEN <<>> ELSE Take(SelectGuidNot(b.contacts, exclude), n)

\* ------------------------------------------------------ routing table
\* the list comprehension of kbucketIndex
kbucketIndexes(bs, key) == {i \in DOMAIN bs : keyInRange(bs[i], key)}

NoBucket == 0
ManyBuckets == -1

\* kbucketIndex: the index, or NoBucket (KeyError) / ManyBuckets (RuntimeError)
kbucketIndex(bs, key) ==
    LET indexes == kbucketIndexes(bs, key)
    IN  IF indexes = {} THEN NoBucket
        ELSE IF Cardinality(indexes) > 1 THEN ManyBuckets
        ELSE CHOOSE i \in indexes : TRUE

InsertAt(s, i, e) == SubSeq(s, 1, i - 1) \o <<e>> \o SubSeq(s, i, Len(s))

RECURSIVE addAll(_, _)
\* first loop of splitBucket: newBucket.addContact for the contacts in its range
addAll(nb, cs) ==
    IF cs = <<>> THEN nb
    ELSE addAll(IF keyInRange(nb, Head(cs).guid)
                THEN KBucket_addContact(nb, Head(cs)).bucket
                ELSE nb,
                Tail(cs))

RECURSIVE removeAll(_, _)
\* second loop of splitBucket: oldBucket.removeContact for the contacts moved
removeAll(ob, cs) ==
    IF cs = <<>> THEN ob
    ELSE removeAll(KBucket_removeContact(ob, Head(cs).guid).bucket, Tail(cs))

\* a split point that cuts off the last id of the range only
splitPoint_lastId(b) == b.rangeMax - 1

\* splitPoint = oldBucket.rangeMax - (oldBucket.rangeMax - oldBucket.rangeMin) / 2
splitPoint(b) == b.rangeMax - ((b.rangeMax - b.rangeMin) \div 2)

\* splitBucket whose new bucket starts one id after the split point
splitBucket_skipsSplitPoint(bs, i) ==
    LET oldBucket == bs[i]
        sp == splitPoint(oldBucket)
        newBucket == addAll(KBucket(sp + 1, oldBucket.rangeMax), oldBucket.contacts)
        shrunk == removeAll([oldBucket EXCEPT !.rangeMax = sp], newBucket.contacts)
    IN  InsertAt([bs EXCEPT ![i] = shrunk], i + 1, newBucket)

\* splitBucket that leaves the contacts it copied in the old bucket
splitBucket_keepsMoved(bs, i) ==
    LET oldBucket == bs[i]
        sp == splitPoint(oldBucket)
        newBucket == addAll(KBucket(sp, oldBucket.rangeMax), oldBucket.contacts)
    IN  InsertAt([bs EXCEPT ![i] = [oldBucket EXCEPT !.rangeMax = sp]], i + 1, newBucket)

\* splitBucket that puts the new bucket in the place of the old one
splitBucket_replacesOld(bs, i) ==
    LET oldBucket == bs[i]
        sp == splitPoint(oldBucket)
        newBucket == addAll(KBucket(sp, oldBucket.rangeMax), oldBucket.contacts)
    IN  [bs EXCEPT ![i] = newBucket]

\* splitBucket(oldBucketIndex): the bucket list afterwards
splitBucket(bs, i) ==
    LET oldBucket == bs[i]
        sp == splitPoint(oldBucket)
        newBucket == addAll(KBucket(sp, oldBucket.rangeMax), oldBucket.contacts)
        shrunk == removeAll([oldBucket EXCEPT !.rangeMax = sp], newBucket.contacts)
    IN  InsertAt([bs EXCEPT ![i] = shrunk], i + 1, newBucket)

\* the state of the table while an operation runs: exc is the exception the
\* operation ends with ("none": it returns), res the branch it ended in and
\* splits the number of splitBucket calls it made
Table == [buckets |-> buckets, cache |-> replacement_cache, pings |-> pings,
          exc |-> "none", res |-> "none", splits |-> 0, stale |-> FALSE]

Ended(t, r) == [t EXCEPT !.res = r]

Raised(t, e) == [t EXCEPT !.exc = e, !.res = "raised"]

\* a ping of the most recently seen contact of the bucket instead of its head
StartPing_pingsTail(t, i, contact) ==
    [t EXCEPT !.pings = @ (+) SetToBag({[head |-> Last(t.buckets[i].contacts).guid,
                                         contact |-> contact,
                                         bucketIndex |-> i]})]

\* headContact.ping() with replaceContact as errback: the closure keeps
\* bucketIndex and contact, the failure will carry the head's guid
StartPing(t, i, contact) ==
    [t EXCEPT !.pings = @ (+) SetToBag({[head |-> t.buckets[i].contacts[1].guid,
                                         contact |-> contact,
                                         bucketIndex |-> i]})]

SplitAt(t, i) == [t EXCEPT !.buckets = splitBucket(t.buckets, i), !.splits = @ + 1]

\* a check for the own id that never fires
isSelf_never(contact) == FALSE

\* contact.guid == self.parent_node_id
isSelf(contact) == contact.guid = parent_node_id

RECURSIVE TreeRoutingTable_addContact(_, _)

\* addContact that splits every full bucket, whatever its range
TreeRoutingTable_addContact_splitsAnyBucket(t, contact) ==
    IF isSelf(contact) THEN Ended(t, "self")
    ELSE
    LET bucketIndex == kbucketIndex(t.buckets, contact.guid) IN
    IF bucketIndex = NoBucket THEN Raised(t, "KeyError: no bucket")
    ELSE IF bucketIndex = ManyBuckets THEN Raised(t, "RuntimeError: many buckets")
    ELSE IF KBucket_getContact(t.buckets[bucketIndex], contact.guid) # <<>>
    THEN Ended(t, "present")
    ELSE
    LET r == KBucket_addContact(t.buckets[bucketIndex], contact) IN
    IF ~r.full THEN Ended([t EXCEPT !.buckets[bucketIndex] = r.bucket], "inserted")
    ELSE TreeRoutingTable_addContact(SplitAt(t, bucketIndex), contact)

\* TreeRoutingTable.addContact
TreeRoutingTable_addContact(t, contact) ==
    IF isSelf(contact) THEN Ended(t, "self")
    ELSE
    LET bucketIndex == kbucketIndex(t.buckets, contact.guid) IN
    IF bucketIndex = NoBucket THEN Raised(t, "KeyError: no bucket")
    ELSE IF bucketIndex = ManyBuckets THEN Raised(t, "RuntimeError: many buckets")
    ELSE IF KBucket_getContact(t.buckets[bucketIndex], contact.guid) # <<>>
    THEN Ended(t, "present")
    ELSE
    LET r == KBucket_addContact(t.buckets[bucketIndex], contact) IN
    IF ~r.full THEN Ended([t EXCEPT !.buckets[bucketIndex] = r.bucket], "inserted")
    ELSE IF keyInRange(t.buckets[bucketIndex], parent_node_id)
    THEN TreeRoutingTable_addContact(SplitAt(t, bucketIndex), contact)
    ELSE Ended(StartPing(t, bucketIndex, contact), "pinged")

\* replaceContact that adds the candidate to the bucket at the captured index
replaceContact_intoCapturedBucket(t, p) ==
    LET r == KBucket_removeContact(t.buckets[p.bucketIndex], p.head)
        a == KBucket_addContact(r.bucket, p.contact)
    IN  Ended([t EXCEPT !.buckets[p.bucketIndex] = a.bucket, !.stale = ~r.found],
              IF a.full THEN "dropped" ELSE "inserted")

\* replaceContact that appends the candidate to the list of its bucket
replaceContact_appends(t, p) ==
    LET r == KBucket_removeContact(t.buckets[p.bucketIndex], p.head)
        t1 == [t EXCEPT !.buckets[p.bucketIndex] = r.bucket, !.stale = ~r.found]
        i == kbucketIndex(t1.buckets, p.contact.guid)
    IN  Ended([t1 EXCEPT !.buckets[i].contacts = Append(@, p.contact)], "inserted")

\* replaceContact(failure) for a TimeoutError: the errback of a head ping.
\* stale records that the bucket at the captured index no longer holds the head.
replaceContact(t, p) ==
    LET r == KBucket_removeContact(t.buckets[p.bucketIndex], p.head)
        t1 == IF r.found THEN [t EXCEPT !.buckets[p.bucketIndex] = r.bucket]
              ELSE [t EXCEPT !.stale = TRUE]
    IN  TreeRoutingTable_addContact(t1, p.contact)

\* the failures a head ping may end with: a TimeoutError and, standing for all
\* the others that failure.trap(TimeoutError) does not tell apart, the
\* CancelledError of a cancelled deferred
Failures == {"TimeoutError", "CancelledError"}

\* a trap that lets every failure pass
trap_passesAll(failure) == TRUE

\* failure.trap(TimeoutError): passes for a TimeoutError, re-raises the failure
\* otherwise
trap(failure) == failure = "TimeoutError"

\* the errback of a head ping, called with the failure of the ping
errback(t, p, failure) ==
    IF trap(failure) THEN replaceContact(t, p) ELSE Raised(t, failure)

\* removeContact that lets the ValueError of the bucket through
TreeRoutingTable_removeContact_raises(t, contactID) ==
    LET bucketIndex == kbucketIndex(t.buckets, contactID) IN
    IF bucketIndex = NoBucket THEN Raised(t, "KeyError: no bucket")
    ELSE IF bucketIndex = ManyBuckets THEN Raised(t, "RuntimeError: many buckets")
    ELSE
    LET r == KBucket_removeContact(t.buckets[bucketIndex], contactID) IN
    IF r.found THEN Ended([t EXCEPT !.buckets[bucketIndex] = r.bucket], "removed")
    ELSE Raised(t, "ValueError")

\* TreeRoutingTable.removeContact
TreeRoutingTable_removeContact(t, contactID) ==
    LET bucketIndex == kbucketIndex(t.buckets, contactID) IN
    IF bucketIndex = NoBucket THEN Raised(t, "KeyError: no bucket")
    ELSE IF bucketIndex = ManyBuckets THEN Raised(t, "RuntimeError: many buckets")
    ELSE
    LET r == KBucket_removeContact(t.buckets[bucketIndex], contactID) IN
    IF r.found THEN Ended([t EXCEPT !.buckets[bucketIndex] = r.bucket], "removed")
    ELSE Ended(t, "absent")

\* del d[key] on the replacement cache
DropKey(rc, key) == [j \in (DOMAIN rc) \ {key} |-> rc[j]]

\* the replacement-cache block of OptimizedTreeRoutingTable.addContact
\* (l.528-537, repeated at l.564-573).  len(self.replacement_cache) counts
\* the keys of the dictionary and pop(0) removes its key 0 (key 1 here),
\* raising KeyError when there is none; the append that follows raises
\* KeyError when the key removed was bucketIndex.
cacheContact(t, bucketIndex, contact) ==
    LET rc1 == IF bucketIndex \in DOMAIN t.cache THEN t.cache
               ELSE (bucketIndex :> <<>>) @@ t.cache
        t1 == [t EXCEPT !.cache = rc1]
    IN  IF contact.guid \in Guids(rc1[bucketIndex])
        THEN Ended([t1 EXCEPT !.cache[bucketIndex] =
                        Append(SelectGuidNot(@, contact.guid), contact)], "cached")
        ELSE IF Cardinality(DOMAIN rc1) >= constants_k
        THEN IF 1 \notin DOMAIN rc1 THEN Raised(t1, "KeyError: replacement_cache")
             ELSE LET rc2 == DropKey(rc1, 1) IN
                  IF bucketIndex = 1
                  THEN Raised([t1 EXCEPT !.cache = rc2], "KeyError: replacement_cache")
                  ELSE Ended([t1 EXCEPT !.cache =
                                 [rc2 EXCEPT ![bucketIndex] = Append(@, contact)]], "cached")
        ELSE Ended([t1 EXCEPT !.cache[bucketIndex] = Append(@, contact)], "cached")

\* OptimizedTreeRoutingTable.removeContact
OptimizedTreeRoutingTable_removeContact(t, contactID) ==
    LET bucketIndex == kbucketIndex(t.buckets, contactID) IN
    IF bucketIndex = NoBucket THEN Raised(t, "KeyError: no bucket")
    ELSE IF bucketIndex = ManyBuckets THEN Raised(t, "RuntimeError: many buckets")
    ELSE
    LET r == KBucket_removeContact(t.buckets[bucketIndex], contactID) IN
    IF ~r.found THEN Ended(t, "absent")
    ELSE IF bucketIndex \in DOMAIN t.cache /\ Len(t.cache[bucketIndex]) > 0
    THEN LET a == KBucket_addContact(r.bucket, Last(t.cache[bucketIndex])) IN
         IF a.full THEN Raised([t EXCEPT !.buckets[bucketIndex] = r.bucket,
                                         !.cache[bucketIndex] = Front(@)], "BucketFull")
         ELSE Ended([t EXCEPT !.buckets[bucketIndex] = a.bucket,
                              !.cache[bucketIndex] = Front(@)], "promoted")
    ELSE Ended([t EXCEPT !.buckets[bucketIndex] = r.bucket], "removed")

RECURSIVE OptimizedTreeRoutingTable_addContact(_, _)

\* a rebind that appends the contact to the list of the bucket
rebind_appends(t, bucketIndex, contact) ==
    Ended([t EXCEPT !.buckets[bucketIndex].contacts = Append(@, contact)], "rebound")

\* the branch of OptimizedTreeRoutingTable.addContact for a stored guid seen at
\* another address: remove the old entry, then insert as for a new contact
rebind(t, bucketIndex, contact) ==
    LET t1 == OptimizedTreeRoutingTable_removeContact(t, contact.guid) IN
    IF t1.exc # "none" THEN t1
    ELSE LET r == KBucket_addContact(t1.buckets[bucketIndex], contact) IN
         IF ~r.full
         THEN Ended([t1 EXCEPT !.buckets[bucketIndex] = r.bucket], "rebound")
         ELSE IF keyInRange(t1.buckets[bucketIndex], parent_node_id)
         THEN OptimizedTreeRoutingTable_addContact(SplitAt(t1, bucketIndex), contact)
         ELSE cacheContact(t1, bucketIndex, contact)

\* OptimizedTreeRoutingTable.addContact
OptimizedTreeRoutingTable_addContact(t, contact) ==
    IF isSelf(contact) THEN Ended(t, "self")
    ELSE
    LET bucketIndex == kbucketIndex(t.buckets, contact.guid) IN
    IF bucketIndex = NoBucket THEN Raised(t, "KeyError: no bucket")
    ELSE IF bucketIndex = ManyBuckets THEN Raised(t, "RuntimeError: many buckets")
    ELSE
    LET old_contact == KBucket_getContact(t.buckets[bucketIndex], contact.guid) IN
    IF old_contact = <<>>
    THEN LET r == KBucket_addContact(t.buckets[bucketIndex], contact) IN
         IF ~r.full
         THEN Ended([t EXCEPT !.buckets[bucketIndex] = r.bucket], "inserted")
         ELSE IF keyInRange(t.buckets[bucketIndex], parent_node_id)
         THEN OptimizedTreeRoutingTable_addContact(SplitAt(t, bucketIndex), contact)
         ELSE cacheContact(t, bucketIndex, contact)
    ELSE IF Head(old_contact).address = contact.address
    THEN Ended(t, "present")
    ELSE rebind(t, bucketIndex, contact)

\* self.addContact / self.removeContact of the table that was constructed
addContact(t, contact) ==
    IF variant = "base" THEN TreeRoutingTable_addContact(t, contact)
    ELSE OptimizedTreeRoutingTable_addContact(t, contact)

removeContact(t, contactID) ==
    IF variant = "base" THEN TreeRoutingTable_removeContact(t, contactID)
    ELSE OptimizedTreeRoutingTable_removeContact(t, contactID)

\* ------------------------------------------------------------- queries
RECURSIVE xor(_, _)
\* the ^ of two non-negative integers
xor(a, b) ==
    IF a = 0 THEN b
    ELSE IF b = 0 THEN a
    ELSE 2 * xor(a \div 2, b \div 2) + (((a % 2) + (b % 2)) % 2)

\* RoutingTable.distance: the XOR of the two ids read as integers
distance(keyOne, keyTwo) == xor(keyOne, keyTwo)

RECURSIVE fillUp(_, _, _, _, _, _, _)
\* the loop with the number of contacts still wanted computed once per round
fillUp_countsOnce(bs, bucketIndex, nodeID, i, closestNodes, canGoLower, canGoHigher) ==
    IF ~(Len(closestNodes) < constants_k /\ (canGoLower \/ canGoHigher)) THEN closestNodes
    ELSE
    LET wanted == constants_k - Len(closestNodes)
        afterLower ==
            IF canGoLower
            THEN closestNodes \o KBucket_getContacts(bs[bucketIndex - i], wanted, nodeID)
            ELSE closestNodes
        lower == IF canGoLower THEN bucketIndex - (i + 1) >= 1 ELSE canGoLower
        afterHigher ==
            IF canGoHigher
            THEN afterLower \o KBucket_getContacts(bs[bucketIndex + i], wanted, nodeID)
            ELSE afterLower
        higher == IF canGoHigher THEN bucketIndex + (i + 1) <= Len(bs) ELSE canGoHigher
    IN  fillUp(bs, bucketIndex, nodeID, i + 1, afterHigher, lower, higher)

\* the while loop of findCloseNodes
fillUp(bs, bucketIndex, nodeID, i, closestNodes, canGoLower, canGoHigher) ==
    IF ~(Len(closestNodes) < constants_k /\ (canGoLower \/ canGoHigher)) THEN closestNodes
    ELSE
    LET afterLower ==
            IF canGoLower
            THEN closestNodes \o KBucket_getContacts(bs[bucketIndex - i],
                                                     constants_k - Len(closestNodes), nodeID)
            ELSE closestNodes
        lower == IF canGoLower THEN bucketIndex - (i + 1) >= 1 ELSE canGoLower
        afterHigher ==
            IF canGoHigher
            THEN afterLower \o KBucket_getContacts(bs[bucketIndex + i],
                                                   constants_k - Len(afterLower), nodeID)
            ELSE afterLower
        higher == IF canGoHigher THEN bucketIndex + (i + 1) <= Len(bs) ELSE canGoHigher
    IN  fillUp(bs, bucketIndex, nodeID, i + 1, afterHigher, lower, higher)

\* findCloseNodes from l.269 on: the contacts gathered around bucketIndex
closestFrom(bs, bucketIndex, nodeID) ==
    fillUp(bs, bucketIndex, nodeID, 1,
           KBucket_getContacts(bs[bucketIndex], constants_k, nodeID),
           bucketIndex - 1 >= 1, bucketIndex + 1 <= Len(bs))

\* TreeRoutingTable.findCloseNodes(key, count, nodeID)
findCloseNodes(bs, key, count, nodeID) ==
    LET bucketIndex == kbucketIndex(bs, key) IN
    IF bucketIndex = NoBucket THEN [exc |-> "KeyError: no bucket", nodes |-> <<>>]
    ELSE IF bucketIndex = ManyBuckets
    THEN [exc |-> "RuntimeError: many buckets", nodes |-> <<>>]
    ELSE [exc |-> "none", nodes |-> closestFrom(bs, bucketIndex, nodeID)]

\* TreeRoutingTable.getContact(contactID): KBucket.getContact raises nothing,
\* so the except clause never runs and what the bucket returned is returned,
\* <<>> (None) included
getContact(bs, contactID) ==
    LET bucketIndex == kbucketIndex(bs, contactID) IN
    IF bucketIndex = NoBucket THEN [exc |-> "KeyError: no bucket", contact |-> <<>>]
    ELSE IF bucketIndex = ManyBuckets
    THEN [exc |-> "RuntimeError: many buckets", contact |-> <<>>]
    ELSE [exc |-> "none", contact |-> KBucket_getContact(bs[bucketIndex], contactID)]

\* TreeRoutingTable.touchKBucket(key)
touchKBucket(t, key) ==
    LET bucketIndex == kbucketIndex(t.buckets, key) IN
    IF bucketIndex = NoBucket THEN Raised(t, "KeyError: no bucket")
    ELSE IF bucketIndex = ManyBuckets THEN Raised(t, "RuntimeError: many buckets")
    ELSE Ended([t EXCEPT !.buckets[bucketIndex].lastAccessed = now], "touched")

RECURSIVE hex(_)
\* hex(idValue)[2:] without the L of a long: the hex digits of idValue
hex(idValue) ==
    IF idValue < 16 THEN <<idValue>> ELSE Append(hex(idValue \div 16), idValue % 16)

\* str.decode('hex'): one byte per pair of hex digits
decodeHex(digits) == [j \in 1 .. (Len(digits) \div 2) |-> 16 * digits[2 * j - 1] + digits[2 * j]]

\* str.encode('hex'): two hex digits per byte
encodeHex(bytes) ==
    [j \in 1 .. (2 * Len(bytes)) |->
        IF j % 2 = 1 THEN bytes[(j + 1) \div 2] \div 16 ELSE bytes[j \div 2] % 16]

\* n * '\x00': the empty string for n <= 0
zeroBytes(n) == [j \in 1 .. n |-> 0]

\* _randomIDInBucketRange for the value idValue that random.randrange drew
randomID(idValue) ==
    LET digits == hex(idValue)
        even == IF Len(digits) % 2 # 0 THEN <<0>> \o digits ELSE digits
        bytes == decodeHex(even)
    IN  zeroBytes(20 - Len(bytes)) \o bytes

\* _randomIDInBucketRange(bucketIndex): the ids that may be returned
randomIDInBucketRange(bs, bucketIndex) ==
    {randomID(idValue) : idValue \in bs[bucketIndex].rangeMin .. (bs[bucketIndex].rangeMax - 1)}

\* a refresh test that looks at the time of the last access only
isDue_ignoresForce(b, force) == now - b.lastAccessed >= refreshTimeout

\* the test of the loop of getRefreshList
isDue(b, force) == force \/ now - b.lastAccessed >= refreshTimeout

RECURSIVE refreshIDs(_, _, _)
\* the loop of getRefreshList from bucketIndex on: the lists it may build
refreshIDs(bs, bucketIndex, force) ==
    IF bucketIndex > Len(bs) THEN {<<>>}
    ELSE IF isDue(bs[bucketIndex], force)
    THEN {<<encodeHex(id)>> \o r : id \in randomIDInBucketRange(bs, bucketIndex),
                                   r \in refreshIDs(bs, bucketIndex + 1, force)}
    ELSE refreshIDs(bs, bucketIndex + 1, force)

\* TreeRoutingTable.getRefreshList(startIndex, force): the lists it may return
\* (startIndex counts from 1, as every index here)
getRefreshList(bs, startIndex, force) == refreshIDs(bs, startIndex, force)

\* ------------------------------------------------------------ the system
\* the tables that are constructed: the class and the parent_node_id.  Below
\* id 1 every split shifts the indexes of the buckets split off before; below
\* id 6 the bucket at index 1 (Python 0) is one that cannot be split.
Tables == {<<"base", 1>>, <<"optimized", 1>>, <<"optimized", 6>>}

Init ==
    /\ \E tb \in Tables : variant = tb[1] /\ parent_node_id = tb[2]
    /\ buckets = <<KBucket(0, 2 ^ B)>>
    /\ replacement_cache = <<>>
    /\ pings = EmptyBag
    /\ now = 0
    /\ constants_k = k
    /\ last = [op |-> "init", res |-> "none", exc |-> "none", splits |-> 0, stale |-> FALSE]

Commit(t, op) ==
    /\ BagCardinality(t.pings) <= MaxPings
    /\ buckets' = t.buckets
    /\ replacement_cache' = t.cache
    /\ pings' = t.pings
    /\ last' = [op |-> op, res |-> t.res, exc |-> t.exc, splits |-> t.splits,
                stale |-> t.stale]
    /\ UNCHANGED <<variant, parent_node_id, now, constants_k>>

\* the owning node calls addContact(contact)
AddContact(contact) == Commit(addContact(Table, contact), "addContact")

\* the owning node calls removeContact(contactID)
RemoveContact(contactID) == Commit(removeContact(Table, contactID), "removeContact")

\* the deferred of ping p fires its errback with a TimeoutError
AfterTimeout(t, p) == replaceContact([t EXCEPT !.pings = @ (-) SetToBag({p})], p)

\* the deferred of ping p fires with a result: no callback is attached
AfterSuccess(t, p) == Ended([t EXCEPT !.pings = @ (-) SetToBag({p})], "answered")

\* a head ping fails with TimeoutError: replaceContact runs
PingTimeout(p) ==
    /\ BagIn(p, pings)
    /\ Commit(AfterTimeout(Table, p), "pingTimeout")

\* a head ping is answered: the errback is not called
PingSuccess(p) ==
    /\ BagIn(p, pings)
    /\ Commit(AfterSuccess(Table, p), "pingSuccess")

\* the deferred of ping p fires its errback with the given failure
AfterFailure(t, p, failure) == errback([t EXCEPT !.pings = @ (-) SetToBag({p})], p, failure)

\* a head ping fails with another error or is cancelled: failure.trap re-raises
PingFailure(p) ==
    /\ BagIn(p, pings)
    /\ \E failure \in Failures \ {"TimeoutError"} :
          Commit(AfterFailure(Table, p, failure), "pingFailure")

Next ==
    \/ \E contact \in Contacts : (variant = "base" => contact.address = 1) /\ AddContact(contact)
    \/ \E contactID \in Ids : RemoveContact(contactID)
    \/ \E p \in BagToSet(pings) : PingTimeout(p)
    \/ \E p \in BagToSet(pings) : PingSuccess(p)
    \/ \E p \in BagToSet(pings) : PingFailure(p)

Spec == Init /\ [][Next]_vars

\* the table of the scenarios of section 8: ids of 8 bits, parent_node_id 0x80
InitS2 ==
    /\ variant \in {"base", "optimized"}
    /\ parent_node_id = 2 ^ 7
    /\ buckets = <<KBucket(0, 2 ^ 8)>>
    /\ replacement_cache = <<>>
    /\ pings = EmptyBag
    /\ now = 0
    /\ constants_k = k
    /\ last = [op |-> "init", res |-> "none", exc |-> "none", splits |-> 0, stale |-> FALSE]

\* a peer of the scenarios: guid g at its one address
S2Contact(g) == [guid |-> g, address |-> 1]

\* the peers the table of the scenarios hears of: 0x01, 0x02, ... as in S1 and
\* S2, one more than a bucket holds, and one peer of the parent's half
S2Peers == (1 .. (k + 1)) \cup {2 ^ 7 + 1}

NextS2 ==
    \/ \E g \in S2Peers : AddContact(S2Contact(g))
    \/ \E contactID \in S2Peers : RemoveContact(contactID)
    \/ \E p \in BagToSet(pings) : PingTimeout(p)
    \/ \E p \in BagToSet(pings) : PingSuccess(p)
    \/ \E p \in BagToSet(pings) : PingFailure(p)

SpecS2 == InitS2 /\ [][NextS2]_vars

\* a second of wall-clock time passes
Tick ==
    /\ now < MaxTime
    /\ now' = now + 1
    /\ UNCHANGED <<variant, parent_node_id, buckets, replacement_cache, pings, constants_k, last>>

\* the owning node calls touchKBucket(key)
TouchKBucket(key) == Commit(touchKBucket(Table, key), "touchKBucket")

\* the table whose refresh list is drawn, and the contacts it hears of: enough
\* of them to split twice
InitRefresh == Init /\ variant = "base" /\ parent_node_id = 1

RefreshContacts == {c \in Contacts : c.address = 1 /\ c.guid \in {0, 2, 3, 4, 6}}

\* the table while time passes: contacts arrive, buckets are touched
NextRefresh ==
    \/ \E contact \in RefreshContacts : AddContact(contact)
    \/ \E key \in Ids : TouchKBucket(key)
    \/ Tick

SpecRefresh == InitRefresh /\ [][NextRefresh]_vars

\* a wider optimized table: ids of 5 bits, parent_node_id 0, one more contact
\* per bucket; three splits can follow each other below a bucket that has
\* contacts in a replacement cache
InitWide ==
    /\ variant = "optimized"
    /\ parent_node_id = 0
    /\ buckets = <<KBucket(0, 2 ^ 5)>>
    /\ replacement_cache = <<>>
    /\ pings = EmptyBag
    /\ now = 0
    /\ constants_k = k + 1
    /\ last = [op |-> "init", res |-> "none", exc |-> "none", splits |-> 0, stale |-> FALSE]

\* the peers the wide table hears of, and those among them that it drops
WideContacts == {[guid |-> g, address |-> 1] : g \in {2, 4, 5, 6, 8, 9, 16, 17, 18, 19}}

WideDropped == {8, 9}

NextWide ==
    \/ \E contact \in WideContacts : AddContact(contact)
    \/ \E contactID \in WideDropped : RemoveContact(contactID)

SpecWide == InitWide /\ [][NextWide]_vars

\* ------------------------------------------------------------ properties
\* the contacts of all buckets, in bucket order
RECURSIVE allContacts(_)
allContacts(bs) == IF bs = <<>> THEN <<>> ELSE Head(bs).contacts \o allContacts(Tail(bs))

\* I1 for the bucket list bs
InRange(bs) ==
    \A i \in DOMAIN bs : \A j \in DOMAIN bs[i].contacts :
        keyInRange(bs[i], bs[i].contacts[j].guid)

\* the contacts that addContact may be called with on the table constructed
Callable == {c \in Contacts : variant = "base" => c.address = 1}

\* bucket i is full and its range holds parent_node_id: splitBucket(i) is called
Splittable(bs, i) == Len(bs[i].contacts) = constants_k /\ keyInRange(bs[i], parent_node_id)

\* C1: the bucket list is a contiguous partition of [0, 2^B): the first bucket
\* starts at 0, the last ends at 2^B, neighbours meet, every id is in the range
\* of exactly one bucket, and no operation ended with kbucketIndex raising.
C1_Partition ==
    /\ buckets[1].rangeMin = 0
    /\ buckets[Len(buckets)].rangeMax = 2 ^ B
    /\ \A i \in 1 .. (Len(buckets) - 1) : buckets[i].rangeMax = buckets[i + 1].rangeMin
    /\ \A id \in Ids : Cardinality(kbucketIndexes(buckets, id)) = 1
    /\ last.exc \notin {"KeyError: no bucket", "RuntimeError: many buckets"}

\* an addContact that split twice has just run
C1_Witness == last.op = "addContact" /\ last.splits = 2 /\ Len(buckets) = 3

\* C2: in the base table every stored contact lies in the range of the bucket
\* that stores it (I1), also after timeout continuations with a stale index.
C2_InRangeBase == variant = "base" => InRange(buckets)

\* a timeout continuation whose captured bucket did not hold the head has
\* inserted its candidate, after two splits
C2_Witness ==
    /\ variant = "base"
    /\ last.op = "pingTimeout" /\ last.stale /\ last.res = "inserted"
    /\ Len(buckets) = 3

\* C3: in the optimized table every stored contact lies in the range of the
\* bucket that stores it (I1), also after promotions from the replacement cache.
C3_InRangeOptimized == variant = "optimized" => InRange(buckets)

\* C4: no bucket holds more than k contacts (I3), in both tables.
C4_AtMostK == \A i \in DOMAIN buckets : Len(buckets[i].contacts) <= k

\* a timeout continuation has evicted a head and filled its bucket while
\* another candidate still waits on a ping of that same head
C4_Witness ==
    /\ last.op = "pingTimeout" /\ last.res = "inserted"
    /\ \E p \in BagToSet(pings) :
          /\ p.head \notin Guids(allContacts(buckets))
          /\ Len(buckets[kbucketIndex(buckets, p.contact.guid)].contacts) = k

\* the number of stored contacts whose guid is not nodeID
StoredOther(nodeID) == Len(SelectGuidNot(allContacts(buckets), nodeID))

\* C5: findCloseNodes returns at most k contacts, and exactly k when the table
\* stores at least k contacts other than the excluded one.  (findCloseNodes
\* reads its key only to find bucketIndex: the formula visits every bucketIndex
\* that some key has, once.)
C5_FindCloseNodesLength ==
    /\ \A key \in Ids : findCloseNodes(buckets, key, k, NoId).exc = "none"
    /\ LET found == {kbucketIndex(buckets, key) : key \in Ids}
       IN  \A nodeID \in Ids \cup {NoId} :
               LET others == StoredOther(nodeID)
               IN  \A bucketIndex \in found :
                       LET nodes == closestFrom(buckets, bucketIndex, nodeID)
                       IN  /\ Len(nodes) <= k
                           /\ (others >= k => Len(nodes) = k)

\* k contacts are found although the bucket of the key has fewer than k to give
\* and the table has three buckets
C5_Witness ==
    /\ Len(buckets) = 3
    /\ \E key \in Ids : \E nodeID \in Ids :
          /\ nodeID \in Guids(buckets[kbucketIndex(buckets, key)].contacts)
          /\ Len(KBucket_getContacts(buckets[kbucketIndex(buckets, key)], k, nodeID)) < k
          /\ Len(findCloseNodes(buckets, key, k, nodeID).nodes) = k

\* C6: the result of findCloseNodes contains a stored contact (other than the
\* excluded one) of smallest XOR distance to the key.
C6_FindCloseNodesNearest ==
    \A key \in Ids : \A nodeID \in Ids \cup {NoId} :
        LET others == SelectGuidNot(allContacts(buckets), nodeID)
            r == findCloseNodes(buckets, key, k, nodeID).nodes
        IN  others # <<>> =>
                \E j \in DOMAIN r : \A m \in DOMAIN others :
                    distance(key, r[j].guid) <= distance(key, others[m].guid)

\* C7: addContact of a contact whose guid is stored in its bucket leaves that
\* guid at the tail of the bucket.
C7_ReAddMovesToTail ==
    \A c \in Callable :
        LET i == kbucketIndex(buckets, c.guid)
            t == addContact(Table, c)
        IN  c.guid \in Guids(buckets[i].contacts) =>
                /\ t.exc = "none"
                /\ t.buckets[kbucketIndex(t.buckets, c.guid)].contacts # <<>>
                /\ Last(t.buckets[kbucketIndex(t.buckets, c.guid)].contacts).guid = c.guid

C9_SelfExcluded ==
    /\ parent_node_id \notin Guids(allContacts(buckets))
    /\ \A i \in DOMAIN replacement_cache : parent_node_id \notin Guids(replacement_cache[i])
    /\ \A a \in Addrs :
          LET t == addContact(Table, [guid |-> parent_node_id, address |-> a])
          IN  /\ t.exc = "none"
              /\ t.buckets = buckets /\ t.cache = replacement_cache /\ t.pings = pings

\* addContact was called with parent_node_id on a table that stores contacts
C9_Witness ==
    /\ last.op = "addContact" /\ last.res = "self"
    /\ allContacts(buckets) # <<>>

\* C10: no bucket holds two contacts of the same guid (I2), in both tables.
C10_NoDuplicateGuid ==
    \A i \in DOMAIN buckets :
        \A j, m \in DOMAIN buckets[i].contacts :
            buckets[i].contacts[j].guid = buckets[i].contacts[m].guid => j = m

\* a timeout continuation found its candidate already stored: it had been
\* inserted by another addContact while the ping was in flight
C10_Witness == last.op = "pingTimeout" /\ last.res = "present"

\* C11: in the optimized table every replacement_cache[i] belongs to a bucket i
\* of the table, holds only guids in the current range of buckets[i], holds no
\* guid twice and holds at most k contacts, also after splits below index i.
C11_CacheOfItsBucket ==
    variant = "optimized" =>
        \A i \in DOMAIN replacement_cache :
            /\ i \in DOMAIN buckets
            /\ \A j \in DOMAIN replacement_cache[i] :
                  keyInRange(buckets[i], replacement_cache[i][j].guid)
            /\ \A j, m \in DOMAIN replacement_cache[i] :
                  replacement_cache[i][j].guid = replacement_cache[i][m].guid => j = m
            /\ Len(replacement_cache[i]) <= k

\* the ping that addContact(c) starts in the current state: of the head of the
\* bucket of c, for c, with the index of that bucket captured
PingOf(c) ==
    [head |-> buckets[kbucketIndex(buckets, c.guid)].contacts[1].guid,
     contact |-> c,
     bucketIndex |-> kbucketIndex(buckets, c.guid)]

\* bucket i is full and cannot be split, and does not hold guid g
FullUnsplittable(bs, i, g) ==
    /\ Len(bs[i].contacts) = constants_k
    /\ ~keyInRange(bs[i], parent_node_id)
    /\ g \notin Guids(bs[i].contacts)

\* C12: base table, addContact(new) on a full bucket that does not hold
\* parent_node_id: the call changes no bucket and starts a ping of the bucket's
\* head H for new; a timeout of that ping right away leaves the bucket with its
\* former contacts without H, followed by new; an answer leaves the buckets as
\* they were, with new stored nowhere.
C12_HeadPingEviction ==
    variant = "base" =>
        \A c \in Callable :
            LET i == kbucketIndex(buckets, c.guid)
                t == addContact(Table, c)
                p == PingOf(c)
                u == AfterTimeout(t, p)
                v == AfterSuccess(t, p)
            IN  FullUnsplittable(buckets, i, c.guid) =>
                    /\ t.exc = "none" /\ t.buckets = buckets
                    /\ t.pings = pings (+) SetToBag({p})
                    /\ u.exc = "none"
                    /\ u.buckets = [buckets EXCEPT ![i].contacts = Append(Tail(@), c)]
                    /\ u.pings = pings
                    /\ v.exc = "none"
                    /\ v.buckets = buckets /\ v.pings = pings
                    /\ c.guid \notin Guids(allContacts(v.buckets))

\* a timed-out ping has just put its candidate into the bucket it was captured
\* for, and that bucket is again full and unsplittable for another candidate
C12_Witness ==
    /\ variant = "base"
    /\ last.op = "pingTimeout" /\ last.res = "inserted" /\ ~last.stale
    /\ \E c \in Callable :
          FullUnsplittable(buckets, kbucketIndex(buckets, c.guid), c.guid)

RECURSIVE S2Filled(_, _)
\* the table t after addContact of the guids 1 .. n, in that order
S2Filled(t, n) == IF n = 0 THEN t ELSE addContact(S2Filled(t, n - 1), S2Contact(n))

\* the table of S2 has just been constructed
S2Start == buckets = <<KBucket(0, 2 ^ 8)>> /\ pings = EmptyBag /\ replacement_cache = <<>>

\* C13 as stated: on the table of S2 (k = 2: guids 1, 2, then 3) the k first
\* contacts fill the single bucket, and addContact of the next one splits at
\* 0x80, then again at 0x40, and stores it.
C13_S2_SecondSplit ==
    S2Start =>
        LET t2 == S2Filled(Table, k)
            t3 == addContact(t2, S2Contact(k + 1))
        IN  /\ t2.buckets = <<[KBucket(0, 256) EXCEPT !.contacts = [g \in 1 .. k |-> S2Contact(g)]]>>
            /\ t3.splits = 2
            /\ Len(t3.buckets) = 3
            /\ t3.buckets[1].rangeMax = 64 /\ t3.buckets[2].rangeMax = 128
            /\ (k + 1) \in Guids(allContacts(t3.buckets))

\* C13 amended: the k first contacts fill the single bucket; addContact of the
\* next one splits once, at 0x80, into [0,128) and [128,256); the retry finds
\* [0,128) full and without parent_node_id, so it splits no further and does not
\* store the contact: the base table pings the head (guid 1) for it, the
\* optimized table puts it into the replacement cache of bucket 0.
C13_S2_SingleSplit ==
    S2Start =>
        LET t2 == S2Filled(Table, k)
            c == S2Contact(k + 1)
            t3 == addContact(t2, c)
        IN  /\ t2.buckets = <<[KBucket(0, 256) EXCEPT !.contacts = [g \in 1 .. k |-> S2Contact(g)]]>>
            /\ t3.exc = "none" /\ t3.splits = 1
            /\ t3.buckets = <<[KBucket(0, 128) EXCEPT !.contacts = [g \in 1 .. k |-> S2Contact(g)]],
                              KBucket(128, 256)>>
            /\ (k + 1) \notin Guids(allContacts(t3.buckets))
            /\ variant = "base" =>
                  /\ t3.pings = SetToBag({[head |-> 1, contact |-> c, bucketIndex |-> 1]})
                  /\ t3.cache = <<>>
            /\ variant = "optimized" =>
                  /\ t3.pings = EmptyBag
                  /\ t3.cache = (1 :> <<c>>)

\* the scenario has been run: the k first guids are in [0,128), the addContact
\* of the next one has split once and left it outside the buckets
C13_Witness ==
    /\ parent_node_id = 128
    /\ last.op = "addContact" /\ last.splits = 1
    /\ buckets = <<[KBucket(0, 128) EXCEPT !.contacts = [g \in 1 .. k |-> S2Contact(g)]],
                   KBucket(128, 256)>>
    /\ \/ \E p \in BagToSet(pings) : p.contact.guid = k + 1
       \/ \E i \in DOMAIN replacement_cache : (k + 1) \in Guids(replacement_cache[i])

\* the contacts of guid g in the buckets bs
StoredAs(bs, g) == {c \in Contacts : \E j \in DOMAIN allContacts(bs) : allContacts(bs)[j] = c /\ c.guid = g}

\* C14: optimized table, guid g stored at address A, addContact(g at B # A):
\* the call returns, afterwards no bucket holds g at A, and g at B is in the
\* bucket covering g or in the replacement cache of that bucket (g is neither
\* lost nor stored at both addresses).
C14_Rebind ==
    variant = "optimized" =>
        \A c \in Contacts :
            (\E old \in StoredAs(buckets, c.guid) : old.address # c.address) =>
                LET t == addContact(Table, c)
                    i == kbucketIndex(t.buckets, c.guid)
                IN  /\ t.exc = "none"
                    /\ StoredAs(t.buckets, c.guid) \subseteq {c}
                    /\ \/ c \in StoredAs(<<t.buckets[i]>>, c.guid)
                       \/ /\ i \in DOMAIN t.cache
                          /\ \E j \in DOMAIN t.cache[i] : t.cache[i][j] = c

\* C15: removeContact of a guid that no bucket stores returns normally and
\* changes no bucket (contents, order, range), no replacement cache and no
\* ping; and for any guid, stored or not, a second call right after the first
\* returns normally and changes nothing more.
C15_RemoveAbsent ==
    \A g \in Ids :
        LET t == removeContact(Table, g)
            u == removeContact(t, g)
        IN  /\ g \notin Guids(allContacts(buckets)) =>
                  /\ t.exc = "none"
                  /\ t.buckets = buckets
                  /\ t.cache = replacement_cache
                  /\ t.pings = pings
            /\ u.exc = "none"
            /\ u.buckets = t.buckets /\ u.cache = t.cache /\ u.pings = t.pings

\* removeContact was called with a guid that is not stored, on a table that
\* stores contacts
C15_Witness ==
    /\ last.op = "removeContact" /\ last.res = "absent"
    /\ allContacts(buckets) # <<>>
    /\ \E g \in Ids : g \notin Guids(allContacts(buckets)) /\ g # parent_node_id

\* C16: getContact(guid) returns the stored contact of that guid when there
\* is one, and raises (ValueError, the NotPresent of the specification) when
\* there is none, instead of returning an absent value.
C16_GetContact ==
    \A g \in Ids :
        LET r == getContact(buckets, g) IN
        IF g \in Guids(allContacts(buckets))
        THEN r.exc = "none" /\ r.contact # <<>> /\ Head(r.contact) \in StoredAs(buckets, g)
        ELSE r.exc = "ValueError"

RECURSIVE intOf(_)
\* the integer a list of hex digits stands for
intOf(digits) ==
    IF digits = <<>> THEN 0 ELSE 16 * intOf(Front(digits)) + Last(digits)

\* the indexes from startIndex on of the buckets due for a refresh, in order
DueFrom(startIndex, force) ==
    SelectSeq([j \in 1 .. Len(buckets) |-> j],
              LAMBDA i : i >= startIndex
                         /\ (force \/ now - buckets[i].lastAccessed >= refreshTimeout))

\* C17: getRefreshList(startIndex, force) returns one id per bucket from
\* startIndex on that is due (force, or last accessed refreshTimeout or more
\* ago) and none for the others, in bucket order, each id in the range of its
\* bucket; with force that is one id for every bucket from startIndex on.
C17_RefreshList ==
    \A startIndex \in 1 .. (Len(buckets) + 1) : \A force \in BOOLEAN :
        \A ids \in getRefreshList(buckets, startIndex, force) :
            LET due == DueFrom(startIndex, force) IN
            /\ Len(ids) = Len(due)
            /\ \A j \in DOMAIN ids : keyInRange(buckets[due[j]], intOf(ids[j]))
            /\ force => Len(ids) = Len(buckets) - (startIndex - 1)

\* three buckets, of which the middle one alone is due (scenario S5)
C17_Witness ==
    /\ Len(buckets) = 3
    /\ DueFrom(1, FALSE) = <<2>>
    /\ last.op = "touchKBucket"

\* the values that are rangeMin or rangeMax of some bucket of bs
Boundaries(bs) == {bs[i].rangeMin : i \in DOMAIN bs} \cup {bs[i].rangeMax : i \in DOMAIN bs}

\* C18: no step removes or merges buckets: the number of buckets never goes
\* down, it goes up by exactly one per splitBucket call of the step and not
\* otherwise, and every bucket boundary stays a bucket boundary.
C18_BucketsOnlyCreated ==
    [][/\ Len(buckets') >= Len(buckets)
       /\ Len(buckets') = Len(buckets) + last'.splits
       /\ Boundaries(buckets) \subseteq Boundaries(buckets')]_vars

\* a second split has made a third bucket, in a call that split once
C18_Witness == Len(buckets) = 3 /\ last.op = "addContact" /\ last.splits = 1

\* C19: base table, whatever happened since a ping of head H for candidate c
\* was started: the timeout continuation ends without raising, and afterwards
\* no bucket stores guid H.
C19_TimeoutRemovesHead ==
    variant = "base" =>
        \A p \in BagToSet(pings) :
            LET t == AfterTimeout(Table, p)
            IN  /\ t.exc = "none"
                /\ p.head \notin Guids(allContacts(t.buckets))

\* C20: optimized table, removeContact(g) with g stored in bucket i (the bucket
\* covering g).  With replacement_cache[i] non-empty the tail of the cache
\* leaves the cache and becomes the tail of bucket i in the same call, after
\* the contacts that stay, so the bucket keeps its size; with the cache empty
\* or absent the bucket just loses g and no cache changes.  Other buckets and
\* other caches stay as they are.
C20_Promotion ==
    variant = "optimized" =>
        \A g \in Guids(allContacts(buckets)) :
            LET i == kbucketIndex(buckets, g)
                t == removeContact(Table, g)
                rest == SelectGuidNot(buckets[i].contacts, g)
            IN  g \in Guids(buckets[i].contacts) =>
                    /\ t.exc = "none"
                    /\ \A j \in DOMAIN buckets : j # i => t.buckets[j] = buckets[j]
                    /\ IF i \in DOMAIN replacement_cache /\ replacement_cache[i] # <<>>
                       THEN /\ t.buckets[i].contacts = Append(rest, Last(replacement_cache[i]))
                            /\ Len(t.buckets[i].contacts) = Len(buckets[i].contacts)
                            /\ t.cache = [replacement_cache EXCEPT ![i] = Front(@)]
                       ELSE /\ t.buckets[i].contacts = rest
                            /\ Len(t.buckets[i].contacts) = Len(buckets[i].contacts) - 1
                            /\ t.cache = replacement_cache

\* the list replacement_cache[i] of the cache rc, empty when there is no key i
CacheOf(rc, i) == IF i \in DOMAIN rc THEN rc[i] ELSE <<>>

\* C21: optimized table, addContact(c) when the bucket i of c is full, does not
\* hold c.guid and does not hold parent_node_id in its range: the call returns,
\* starts no ping and leaves every bucket as it is; afterwards
\* replacement_cache[i] is its former list without the former entry of c.guid,
\* without its oldest entry if that left k contacts, followed by c; the caches
\* of the other buckets are as before.
C21_CacheFrame ==
    variant = "optimized" =>
        \A c \in Callable :
            LET i == kbucketIndex(buckets, c.guid)
                t == addContact(Table, c)
                others == SelectGuidNot(CacheOf(replacement_cache, i), c.guid)
                kept == IF Len(others) >= k THEN Tail(others) ELSE others
            IN  FullUnsplittable(buckets, i, c.guid) =>
                    /\ t.exc = "none"
                    /\ t.pings = pings
                    /\ t.buckets = buckets
                    /\ i \in DOMAIN t.cache
                    /\ t.cache[i] = Append(kept, c)
                    /\ \A j \in (DOMAIN replacement_cache \cup DOMAIN t.cache) \ {i} :
                          CacheOf(t.cache, j) = CacheOf(replacement_cache, j)

\* C22: base table, a head ping in flight that is cancelled or fails with
\* anything but a TimeoutError: the continuation changes no bucket (ranges,
\* contents and order, so the pinged head keeps its place) and no replacement
\* cache, the candidate of the ping is stored nowhere it was not before, and
\* the other pings stay in flight.
C22_FailedPingNoChange ==
    variant = "base" =>
        \A p \in BagToSet(pings) : \A failure \in Failures \ {"TimeoutError"} :
            LET t == AfterFailure(Table, p, failure)
            IN  /\ t.buckets = buckets
                /\ t.cache = replacement_cache
                /\ t.pings = pings (-) SetToBag({p})
                /\ \A i \in DOMAIN buckets : \A j \in DOMAIN buckets[i].contacts :
                      buckets[i].contacts[j].guid = p.head =>
                          t.buckets[i].contacts[j].guid = p.head
                /\ Guids(allContacts(t.buckets)) \ Guids(allContacts(buckets)) = {}

\* the only ping in flight has been cancelled: the bucket of some candidate is
\* still full, with its head in place, and the candidate is not stored
C22_Witness ==
    /\ variant = "base"
    /\ last.op = "pingFailure" /\ last.exc = "CancelledError"
    /\ pings = EmptyBag
    /\ \E c \in Callable :
          FullUnsplittable(buckets, kbucketIndex(buckets, c.guid), c.guid)

\* the bucket indexes around i in the order i, i-1, i+1, i-2, i+2, ... as far
\* as they exist among n buckets
VisitOrder(n, i) ==
    LET cand == [j \in 1 .. (2 * n + 1) |->
                    IF j = 1 THEN i ELSE IF j % 2 = 0 THEN i - (j \div 2) ELSE i + (j \div 2)]
    IN  SelectSeq(cand, LAMBDA b : b >= 1 /\ b <= n)

RECURSIVE Drawn(_, _, _, _)
\* acc followed by the contacts drawn from the buckets of order, one bucket
\* after the other, in insertion order and without guid exclude, each draw
\* limited to what is missing to k
Drawn(bs, order, exclude, acc) ==
    IF order = <<>> \/ Len(acc) >= k THEN acc
    ELSE Drawn(bs, Tail(order), exclude,
               acc \o Take(SelectGuidNot(bs[Head(order)].contacts, exclude), k - Len(acc)))

\* the values of count that findCloseNodes is called with
Counts == {0, k + 1}

\* C23: findCloseNodes(key, count, exclude) returns the contacts of the bucket
\* i of key in insertion order, then those of the buckets i-1, i+1, i-2, i+2,
\* ..., each draw limited to what is missing to k, and stops at k; the result
\* holds no contact of guid exclude, no guid twice and only contacts stored in
\* buckets, and it is the same for every count.
C23_FindCloseNodesOrder ==
    LET stored == UNION {{buckets[i].contacts[j] : j \in DOMAIN buckets[i].contacts} :
                            i \in DOMAIN buckets}
    IN  \A i \in DOMAIN buckets : \A exclude \in Ids \cup {NoId} :
            LET key == buckets[i].rangeMin
                r == findCloseNodes(buckets, key, k, exclude)
            IN  /\ r.exc = "none"
                /\ r.nodes = Drawn(buckets, VisitOrder(Len(buckets), i), exclude, <<>>)
                /\ exclude \notin Guids(r.nodes)
                /\ Cardinality(Guids(r.nodes)) = Len(r.nodes)
                /\ \A j \in DOMAIN r.nodes : r.nodes[j] \in stored
                /\ \A count \in Counts : findCloseNodes(buckets, key, count, exclude) = r

\* the table t stores a contact of the guid of c in the bucket covering it
EndsStored(t, c) ==
    c.guid \in Guids(t.buckets[kbucketIndex(t.buckets, c.guid)].contacts)

\* the call that led to t has started one head ping, for c
EndsPinged(t, c) ==
    /\ variant = "base"
    /\ \E p \in BagToSet(t.pings) :
          /\ p.contact = c
          /\ t.pings = pings (+) SetToBag({p})

\* c is the most recent entry of the replacement cache of its bucket in t
EndsCached(t, c) ==
    LET i == kbucketIndex(t.buckets, c.guid)
    IN  /\ variant = "optimized"
        /\ i \in DOMAIN t.cache
        /\ t.cache[i] # <<>>
        /\ Last(t.cache[i]) = c

\* C24: every addContact call ends without raising, after at most B calls of
\* splitBucket, with the contact stored in its bucket, a head ping started for
\* it (base) or the contact cached for its bucket (optimized); and a full
\* bucket whose range holds parent_node_id has more than k ids in its range,
\* so that splitBucket halves it into two non-empty ranges.
C24_AddContactEnds ==
    /\ last.splits <= B
    /\ \A c \in Callable :
          LET t == addContact(Table, c)
          IN  /\ t.exc = "none"
              /\ t.splits <= B
              /\ c.guid # parent_node_id =>
                    EndsStored(t, c) \/ EndsPinged(t, c) \/ EndsCached(t, c)
    /\ \A i \in DOMAIN buckets :
          Splittable(buckets, i) =>
              /\ buckets[i].rangeMax - buckets[i].rangeMin > k
              /\ buckets[i].rangeMin < splitPoint(buckets[i])
              /\ splitPoint(buckets[i]) < buckets[i].rangeMax

\* the range of bucket b is [a * 2^j, (a + 1) * 2^j) for some a and j in 0 .. B
Aligned(b) ==
    LET width == b.rangeMax - b.rangeMin
    IN  /\ width \in {2 ^ j : j \in 0 .. B}
        /\ b.rangeMin % width = 0

\* the ranges of the buckets bs, as pairs
Ranges(bs) == {<<bs[i].rangeMin, bs[i].rangeMax>> : i \in DOMAIN bs}

\* in every state: aligned power-of-two ranges, one bucket for parent_node_id,
\* at most B + 1 buckets
C25_RangesNow ==
    /\ \A i \in DOMAIN buckets : Aligned(buckets[i])
    /\ Cardinality(kbucketIndexes(buckets, parent_node_id)) = 1
    /\ Len(buckets) <= B + 1

\* in every step: a bucket without parent_node_id keeps its range, and every
\* range that is new lies within the former range of the bucket of
\* parent_node_id
C25_RangesStep ==
    LET own == buckets[kbucketIndex(buckets, parent_node_id)]
    IN  /\ \A i \in DOMAIN buckets :
              ~keyInRange(buckets[i], parent_node_id) =>
                  <<buckets[i].rangeMin, buckets[i].rangeMax>> \in Ranges(buckets')
        /\ \A r \in Ranges(buckets') \ Ranges(buckets) :
              own.rangeMin <= r[1] /\ r[2] <= own.rangeMax

\* C25: in every reachable state each bucket's range is a non-empty aligned
\* power-of-two interval, exactly one bucket's range holds parent_node_id and
\* there are at most B + 1 buckets; and in every step only the bucket holding
\* parent_node_id is split: the range of any other bucket stays as it is.
C25_AlignedRanges == []C25_RangesNow /\ [][C25_RangesStep]_vars

\* a split has just made a third bucket, and both buckets without
\* parent_node_id are full: they stay as they are from here on
C25_Witness ==
    /\ Len(buckets) = 3 /\ last.splits = 1
    /\ \A i \in DOMAIN buckets :
          keyInRange(buckets[i], parent_node_id) \/ Len(buckets[i].contacts) = k

\* C26: optimized table, in every reachable state: a non-empty
\* replacement_cache[i] belongs to a bucket i that holds exactly k contacts,
\* and no guid is both stored in a bucket and held in a replacement cache.
C26_CacheOnlyWhenFull ==
    variant = "optimized" =>
        \A i \in DOMAIN replacement_cache :
            replacement_cache[i] # <<>> =>
                /\ i \in DOMAIN buckets
                /\ Len(buckets[i].contacts) = k
                /\ Guids(replacement_cache[i]) \cap Guids(allContacts(buckets)) = {}

====
